---- MODULE Spec2Model ----
(***************************************************************************)
(* Model of src/file_sender_server.py: the Telegram file sender server.    *)
(*                                                                         *)
(* Every invocation of call_tool runs as one cooperative task.  A task     *)
(* runs atomically between its suspension points, which are the two        *)
(* awaits on the remote service: get_updates (line 42) and                 *)
(* send_document / send_photo (lines 75, 112).  The process-wide state is  *)
(* the module global "bot"; the environment variable TELEGRAM_BOT_TOKEN    *)
(* and the file system belong to the surroundings and change at any time.  *)
(*                                                                         *)
(* Python values are records tagged by their type in field t.  A text is   *)
(* the sequence of the fragments its f-string is built from, so that       *)
(* "starts with" is a prefix of that sequence.                             *)
(***************************************************************************)
EXTENDS Integers, Sequences, FiniteSets, TLC

\* Longest list of updates the remote service holds in the model.
MaxUpdates == 2

\* get_updates(limit=100), line 42.
limit == 100

Tasks == {"t1", "t2"}

(***************************************************************************)
(* Python values                                                           *)
(***************************************************************************)
None == [t |-> "none"]
Absent == [t |-> "absent"]            \* key not in the arguments mapping
Str(s) == [t |-> "str", s |-> s]
IntVal(i) == [t |-> "int", i |-> i]
NonEmptyList == [t |-> "list"]        \* a value that is no path: ["x"]

\* Python truthiness, as used by "if not x".
Truthy(v) ==
    CASE v.t = "none" -> FALSE
      [] v.t = "str"  -> v.s # ""
      [] v.t = "int"  -> v.i # 0
      [] v.t = "list" -> TRUE
      [] OTHER        -> TRUE

ChatIds == {0, 7}

\* str(int) on the chat ids of the model.
IntText(i) ==
    CASE i = 0 -> "0"
      [] i = 7 -> "7"
      [] OTHER -> "?"

\* str(v) for the values the code formats.
PyStr(v) ==
    CASE v.t = "str"  -> v.s
      [] v.t = "int"  -> IntText(v.i)
      [] v.t = "none" -> "None"
      [] OTHER        -> "['x']"

\* dict.get(key): the value, or None when the key is absent.
DictGet(d, key) == IF d[key] = Absent THEN None ELSE d[key]

(***************************************************************************)
(* Exceptions and outcomes                                                 *)
(***************************************************************************)
Exc(cls, msg) == [cls |-> cls, msg |-> msg]

\* telegram.error: the classes "except TelegramError" catches.
TelegramErrorClasses == {"TelegramError", "BadRequest", "NetworkError"}

Pending == [k |-> "pending"]
NotCalled == [k |-> "notcalled"]
Ok == [k |-> "ok"]
Raise(e) == [k |-> "raise", exc |-> e]
Ret(v) == [k |-> "return", val |-> v]

\* return [TextContent(type="text", text=...)]
TextContent(text) == [type |-> "text", text |-> text]
Return(text) == Ret(<<TextContent(text)>>)

StartsWith(text, prefix) ==
    /\ Len(text) >= Len(prefix)
    /\ SubSeq(text, 1, Len(prefix)) = prefix

(***************************************************************************)
(* The surroundings: environment, file system, remote service              *)
(***************************************************************************)
Path == "/tmp/a.pdf"
Paths == {Path}
FsStates == {"missing", "file", "dir"}
TokenValues == {None, Str(""), Str("tokA")}

\* os.path.basename
basename(p) == IF p = Path THEN "a.pdf" ELSE p

Update(cid) == [message |-> [t |-> "message", chat_id |-> cid]]
UpdateNoMessage == [message |-> None]       \* edited message, channel post...
UpdateValues == {UpdateNoMessage} \cup {Update(c) : c \in ChatIds}

SeqsUpTo(S, n) == UNION {[1..k -> S] : k \in 0..n}

Min(a, b) == IF a <= b THEN a ELSE b

\* What get_updates(limit=100) may return.
UpdateLists == SeqsUpTo(UpdateValues, Min(MaxUpdates, limit))

SendNames == {"send_telegram_document", "send_telegram_photo"}
NameValues == SendNames \cup {"send_telegram_Photo", "list_tools"}

FilePathValues == {Absent, Str(""), Str(Path), NonEmptyList}
ChatIdValues == {Absent, Str(""), Str("42")}

ArgumentValues ==
    {None} \cup
    {[t |-> "dict", file_path |-> f, chat_id |-> c] :
        f \in FilePathValues, c \in ChatIdValues}

MessageIds == {"101"}

UpdatesResponses ==
    {[k |-> "ok", updates |-> u] : u \in UpdateLists} \cup
    {Raise(Exc("NetworkError", <<"Timed out">>))}

\* The Message of a successful upload echoes the chat it was sent to.
UploadOutcomes(cid) ==
    {[k |-> "ok", message |-> [chat_id |-> PyStr(cid), message_id |-> m]] : m \in MessageIds} \cup
    {Raise(Exc("BadRequest", <<"Chat not found">>)),
     Raise(Exc("RuntimeError", <<"boom">>))}

(***************************************************************************)
(* State                                                                   *)
(***************************************************************************)
VARIABLES
    bot,          \* the module global "bot": NoBot, or the Bot instance
    ctorCount,    \* how many times Bot(token=...) was constructed
    environ,      \* os.getenv("TELEGRAM_BOT_TOKEN")
    fs,           \* what each path refers to on the file system
    task          \* per task: the locals of its call_tool invocation

vars == <<bot, ctorCount, environ, fs, task>>

NoBot == [t |-> "none"]
NoResp == [k |-> "none"]

\* pc: where the task stands; name, arguments, chat_id: the locals of
\* call_tool and of send_document / send_photo; inflight: the answer of
\* get_updates the task is about to resume with; log: the remote calls this
\* invocation issued and how each ended; getbots: how each of its get_bot
\* calls ended; inner: how send_document / send_photo ended; result: how
\* call_tool ended.
IdleTask ==
    [pc |-> "idle", name |-> "", arguments |-> None, chat_id |-> None,
     inflight |-> NoResp, log |-> <<>>, getbots |-> <<>>,
     inner |-> NotCalled, result |-> NotCalled]

(***************************************************************************)
(* get_bot, lines 27-35                                                    *)
(***************************************************************************)
\* Bot(token=token): a new instance, told apart by its construction number.
Bot(token, n) == [t |-> "bot", token |-> token, id |-> n]

TokenRequired ==
    Exc("ValueError", <<"TELEGRAM_BOT_TOKEN environment variable is required">>)

\* get_bot without "global bot": every call constructs, nothing is cached.
get_bot_no_cache(b, env, n) ==
    IF ~Truthy(env)
    THEN [bot |-> b, how |-> "raised", exc |-> TokenRequired]
    ELSE [bot |-> b, how |-> "constructed", exc |-> None]

get_bot(b, env, n) ==
    IF b = NoBot
    THEN IF ~Truthy(env)
         THEN [bot |-> b, how |-> "raised", exc |-> TokenRequired]
         ELSE [bot |-> Bot(PyStr(env), n + 1), how |-> "constructed", exc |-> None]
    ELSE [bot |-> b, how |-> "cached", exc |-> None]

(***************************************************************************)
(* File system calls                                                       *)
(***************************************************************************)
NotAPath ==
    Exc("TypeError", <<"stat: path should be string, bytes, os.PathLike or integer, not list">>)

NoSuchFile(p) == Exc("FileNotFoundError", <<"[Errno 2] No such file or directory: ", p>>)

\* The existence check left out: every path passes.
exists_unchecked(fp, fsv) ==
    IF fp.t = "str" THEN Ret(TRUE) ELSE Raise(NotAPath)

\* os.path.exists(file_path): TypeError on a value that is no path.
exists(fp, fsv) ==
    IF fp.t = "str"
    THEN Ret(fp.s \in Paths /\ fsv[fp.s] # "missing")
    ELSE Raise(NotAPath)

\* open(file_path, 'rb').
open(fp, fsv) ==
    CASE fsv[fp.s] = "file" -> Ok
      [] fsv[fp.s] = "dir"  -> Raise(Exc("IsADirectoryError", <<"[Errno 21] Is a directory: ", fp.s>>))
      [] OTHER              -> Raise(NoSuchFile(fp.s))

\* os.path.getsize(file_path), as the text the f-string renders.
getsize(fp, fsv) ==
    CASE fsv[fp.s] = "file" -> Ret("1024")
      [] fsv[fp.s] = "dir"  -> Ret("4096")
      [] OTHER              -> Raise(NoSuchFile(fp.s))

(***************************************************************************)
(* One atomic run of a task, from where it stands to its next await or to  *)
(* its return, is described by the record Step builds.                     *)
(***************************************************************************)
Step(pcv, cid, lg, outcome, g) ==
    [pc |-> pcv, chat_id |-> cid, log |-> lg, inner |-> outcome,
     bot |-> g.bot, how |-> g.how]

NoGetBot(b) == [bot |-> b, how |-> "nocall", exc |-> None]

Event(op, cid) == [op |-> op, chat_id |-> cid, out |-> Pending]

UploadOps == {"send_document", "send_photo"}

UploadOp(kind) == IF kind = "document" THEN "send_document" ELSE "send_photo"

\* "except Exception" placed before "except TelegramError".
TelegramErrorShadowed(e) == FALSE

\* Lines 85, 121: except TelegramError.
IsTelegramError(e) == e.cls \in TelegramErrorClasses

\* The except clauses of send_document (lines 85-88) and send_photo (121-124).
HandleUploadError(e) ==
    IF IsTelegramError(e)
    THEN Return(<<"Telegram error: ">> \o e.msg)
    ELSE Return(<<"Error: ">> \o e.msg)

UnresolvedText ==
    <<"Error: ", "chat_id not provided and could not auto-detect",
      ". Please send a message to the bot first.">>

\* "if file_path is None" in place of "if not file_path".
FilePathIsNone(fp) == fp = None

\* Lines 60, 97: if not file_path.
FilePathMissing(fp) == ~Truthy(fp)

\* The auto-detection run whether or not a chat id was given.
ChatIdIgnored(cid) == TRUE

\* Lines 67, 69 (104, 106): if not chat_id.
ChatIdMissing(cid) == ~Truthy(cid)

\* Lines 72-79 (109-116): the try block up to the await of the upload.
UploadBegin(kind, fp, cid, lg, b, env, n, fsv) ==
    LET g == get_bot(b, env, n) IN
    IF g.how = "raised"
    THEN Step("done", cid, lg, HandleUploadError(g.exc), g)
    ELSE LET o == open(fp, fsv) IN
         IF o.k = "raise"
         THEN Step("done", cid, lg, HandleUploadError(o.exc), g)
         ELSE Step("await_upload", cid, Append(lg, Event(UploadOp(kind), cid)), Pending, g)

\* Lines 40-42: get_chat_id_from_updates up to the await of get_updates; a
\* failure of get_bot is caught at line 49 and the function returns None,
\* which line 69 turns into the unresolved-identity text.
ResolveBegin(b, env, n) ==
    LET g == get_bot(b, env, n) IN
    IF g.how = "raised"
    THEN Step("done", None, <<>>, Return(UnresolvedText), g)
    ELSE Step("await_updates", None, <<Event("get_updates", None)>>, Pending, g)

\* Lines 56-70 (93-107): send_document / send_photo from entry to the first
\* await or return.  These lines stand outside the try block.
SendBegin(kind, args, b, env, n, fsv) ==
    IF args.t # "dict"
    THEN Step("done", None, <<>>,
              Raise(Exc("AttributeError", <<"'NoneType' object has no attribute 'get'">>)),
              NoGetBot(b))
    ELSE LET cid == DictGet(args, "chat_id")
             fp  == DictGet(args, "file_path")
         IN  IF FilePathMissing(fp)
             THEN Step("done", cid, <<>>, Return(<<"Error: ", "file_path is required">>), NoGetBot(b))
             ELSE LET ex == exists(fp, fsv) IN
                  IF ex.k = "raise"
                  THEN Step("done", cid, <<>>, ex, NoGetBot(b))
                  ELSE IF ~ex.val
                  THEN Step("done", cid, <<>>,
                            Return(<<"Error: ", "File not found: ", PyStr(fp)>>), NoGetBot(b))
                  ELSE IF ChatIdMissing(cid)
                  THEN ResolveBegin(b, env, n)
                  ELSE UploadBegin(kind, fp, cid, <<>>, b, env, n, fsv)

send_document(args, b, env, n, fsv) == SendBegin("document", args, b, env, n, fsv)

send_photo(args, b, env, n, fsv) == SendBegin("photo", args, b, env, n, fsv)

\* The scan without reversed(): the oldest update with a message wins.
RECURSIVE ScanUp(_, _)
ScanUp(updates, i) ==
    IF i > Len(updates) THEN None
    ELSE IF Truthy(updates[i].message)
         THEN Str(PyStr(IntVal(updates[i].message.chat_id)))
         ELSE ScanUp(updates, i + 1)

ScanOldestFirst(updates, i) == ScanUp(updates, 1)

\* Lines 45-48: the scan of updates[1..i], most recent first.
RECURSIVE ScanFrom(_, _)
ScanFrom(updates, i) ==
    IF i = 0 THEN None
    ELSE IF Truthy(updates[i].message)
         THEN Str(PyStr(IntVal(updates[i].message.chat_id)))
         ELSE ScanFrom(updates, i - 1)

\* Lines 44-48.
ScanUpdates(updates) == IF updates # <<>> THEN ScanFrom(updates, Len(updates)) ELSE None

\* get_chat_id_from_updates without its try/except.
get_chat_id_uncaught(resp) ==
    IF resp.k = "raise" THEN resp ELSE Ret(ScanUpdates(resp.updates))

\* Lines 42-51: how get_chat_id_from_updates ends once get_updates ended
\* with resp.
get_chat_id_from_updates(resp) ==
    IF resp.k = "raise" THEN Ret(None) ELSE Ret(ScanUpdates(resp.updates))

\* call_tool with "else" in place of the second name test.
DispatchLoose(nm, args, b, env, n, fsv) ==
    IF nm = "send_telegram_document"
    THEN send_document(args, b, env, n, fsv)
    ELSE send_photo(args, b, env, n, fsv)

\* Lines 184-189: call_tool's dispatch by name.
Dispatch(nm, args, b, env, n, fsv) ==
    IF nm = "send_telegram_document"
    THEN send_document(args, b, env, n, fsv)
    ELSE IF nm = "send_telegram_photo"
    THEN send_photo(args, b, env, n, fsv)
    ELSE Step("done", None, <<>>, NotCalled, NoGetBot(b))

KindOf(nm) == IF nm = "send_telegram_document" THEN "document" ELSE "photo"

UnknownTool(nm) == Exc("ValueError", <<"Unknown tool: ", nm>>)

\* call_tool without its try/except.
call_tool_uncaught(nm, outcome) ==
    IF outcome.k = "notcalled" THEN Raise(UnknownTool(nm)) ELSE outcome

\* Lines 183-192: how call_tool ends once the dispatched operation ended
\* with "outcome" (NotCalled: the name matched no tool).
call_tool(nm, outcome) ==
    CASE outcome.k = "notcalled" -> Return(<<"Error: ">> \o UnknownTool(nm).msg)
      [] outcome.k = "raise"     -> Return(<<"Error: ">> \o outcome.exc.msg)
      [] OTHER                   -> outcome

\* Lines 81-84 (118-120): the text of a successful upload.
SuccessText(kind, fp, message, size) ==
    IF kind = "document"
    THEN <<"Document sent successfully!", "File: ", basename(fp.s), "Size: ", size, " bytes",
           "Chat ID: ", message.chat_id, "Message ID: ", message.message_id>>
    ELSE <<"Photo sent successfully!", "File: ", basename(fp.s),
           "Chat ID: ", message.chat_id, "Message ID: ", message.message_id>>

\* Lines 79-88 (116-124): from the end of the upload to the return.
UploadEnd(kind, fp, out, fsv) ==
    IF out.k = "raise"
    THEN HandleUploadError(out.exc)
    ELSE IF kind = "document"
    THEN LET sz == getsize(fp, fsv) IN
         IF sz.k = "raise" THEN HandleUploadError(sz.exc)
         ELSE Return(SuccessText(kind, fp, out.message, sz.val))
    ELSE Return(SuccessText(kind, fp, out.message, ""))

OutOf(resp) == IF resp.k = "ok" THEN Ok ELSE resp

SetOut(lg, out) == [lg EXCEPT ![Len(lg)].out = out]

(***************************************************************************)
(* Actions                                                                 *)
(***************************************************************************)
Init ==
    /\ bot = NoBot
    /\ ctorCount = 0
    /\ environ \in TokenValues
    /\ fs \in [Paths -> FsStates]
    /\ task = [t \in Tasks |-> IdleTask]

\* The effect of one atomic run of task t on the state.
Apply(t, nm, args, st) ==
    /\ task' = [task EXCEPT ![t] =
                  [pc |-> st.pc, name |-> nm, arguments |-> args,
                   chat_id |-> st.chat_id, inflight |-> NoResp, log |-> st.log,
                   getbots |-> IF st.how = "nocall" THEN task[t].getbots
                               ELSE Append(task[t].getbots, st.how),
                   inner |-> st.inner,
                   result |-> IF st.pc = "done" THEN call_tool(nm, st.inner) ELSE Pending]]
    /\ bot' = st.bot
    /\ ctorCount' = IF st.how = "constructed" THEN ctorCount + 1 ELSE ctorCount
    /\ UNCHANGED <<environ, fs>>

\* A task whose next step is due at once: its answer from get_updates has
\* arrived, or call_tool has returned and the bridge sends the response.
\* The arrival of an answer and the return value are seen by nobody but the
\* task and the bridge, so letting that step come first leaves out no
\* behaviour of the server.
Urgent(t) == task[t].pc = "done" \/ task[t].inflight # NoResp

Quiet == \A t \in Tasks : ~Urgent(t)

\* The bridge invokes call_tool(name, arguments); the task runs to its first
\* await or to its return.
Call(t) ==
    /\ Quiet
    /\ task[t].pc = "idle"
    /\ \E nm \in NameValues, args \in ArgumentValues :
          Apply(t, nm, args, Dispatch(nm, args, bot, environ, ctorCount, fs))

\* The remote service answers the get_updates call of task t.
RemoteUpdates(t) ==
    /\ Quiet
    /\ task[t].pc = "await_updates"
    /\ \E resp \in UpdatesResponses :
          task' = [task EXCEPT ![t].inflight = resp]
    /\ UNCHANGED <<bot, ctorCount, environ, fs>>

\* Task t resumes at line 42 with the answer, resolves the chat id (lines
\* 44-51, 68-70) and goes on to the upload (lines 72-79).
ResumeUpdates(t) ==
    /\ task[t].pc = "await_updates"
    /\ task[t].inflight # NoResp
    /\ LET cur == task[t]
           r   == get_chat_id_from_updates(cur.inflight)
           lg  == SetOut(cur.log, OutOf(cur.inflight))
           fp  == DictGet(cur.arguments, "file_path")
       IN  IF r.k = "raise"
           THEN Apply(t, cur.name, cur.arguments,
                      Step("done", cur.chat_id, lg, r, NoGetBot(bot)))
           ELSE IF ChatIdMissing(r.val)
           THEN Apply(t, cur.name, cur.arguments,
                      Step("done", r.val, lg, Return(UnresolvedText), NoGetBot(bot)))
           ELSE Apply(t, cur.name, cur.arguments,
                      UploadBegin(KindOf(cur.name), fp, r.val, lg, bot, environ, ctorCount, fs))

\* The upload of task t ends; the task resumes at line 79 (116) and returns.
ResumeUpload(t) ==
    /\ Quiet
    /\ task[t].pc = "await_upload"
    /\ LET cur == task[t]
           fp  == DictGet(cur.arguments, "file_path")
       IN  \E out \in UploadOutcomes(cur.chat_id) :
              Apply(t, cur.name, cur.arguments,
                    Step("done", cur.chat_id, SetOut(cur.log, OutOf(out)),
                         UploadEnd(KindOf(cur.name), fp, out, fs), NoGetBot(bot)))

\* The bridge sends the response of task t; the invocation is over and its
\* locals are gone.
Respond(t) ==
    /\ task[t].pc = "done"
    /\ task' = [task EXCEPT ![t] = IdleTask]
    /\ UNCHANGED <<bot, ctorCount, environ, fs>>

\* The surroundings set or unset TELEGRAM_BOT_TOKEN.
SetEnv ==
    /\ Quiet
    /\ \E v \in TokenValues \ {environ} : environ' = v
    /\ UNCHANGED <<bot, ctorCount, fs, task>>

\* The surroundings create, remove or replace the file.
FsChange ==
    /\ Quiet
    /\ \E p \in Paths : \E s \in FsStates \ {fs[p]} : fs' = [fs EXCEPT ![p] = s]
    /\ UNCHANGED <<bot, ctorCount, environ, task>>

Next ==
    \/ \E t \in Tasks : Call(t)
    \/ \E t \in Tasks : RemoteUpdates(t)
    \/ \E t \in Tasks : ResumeUpdates(t)
    \/ \E t \in Tasks : ResumeUpload(t)
    \/ \E t \in Tasks : Respond(t)
    \/ SetEnv
    \/ FsChange

Spec == Init /\ [][Next]_vars

(***************************************************************************)
(* Properties                                                              *)
(***************************************************************************)
Done(t) == task[t].pc = "done"

\* The text of the single item call_tool returned.
ResultText(t) == task[t].result.val[1].text

\* The text of the single item send_document / send_photo returned.
InnerText(t) == task[t].inner.val[1].text

IsSingleText(outcome) ==
    /\ outcome.k = "return"
    /\ Len(outcome.val) = 1
    /\ outcome.val[1].type = "text"

IsSend(t) == task[t].name \in SendNames

IsRequest(t) == IsSend(t) /\ task[t].arguments.t = "dict"

UploadEvents(lg) == {i \in DOMAIN lg : lg[i].op \in UploadOps}

QueryEvents(lg) == {i \in DOMAIN lg : lg[i].op = "get_updates"}

\* C1: whatever the name, the arguments, the file system, the credential
\* and the answers of the remote service, call_tool ends by returning a
\* sequence of exactly one text item; it never ends by raising.
C1_SingleTextAlways ==
    \A t \in Tasks : Done(t) => IsSingleText(task[t].result)

\* C1 witness: the dispatched operation raised, and call_tool returned a text.
C1_Witness ==
    \E t \in Tasks :
        /\ Done(t)
        /\ task[t].inner.k = "raise"
        /\ IsSingleText(task[t].result)
        /\ Head(ResultText(t)) = "Error: "

\* C2: a request whose file_path is absent or empty makes send_document and
\* send_photo return "Error: file_path is required", whatever else holds;
\* the check comes first, so no client is obtained and no remote call made.
C2_FilePathRequired ==
    \A t \in Tasks :
        (Done(t) /\ IsRequest(t) /\ task[t].arguments.file_path \in {Absent, Str("")})
        => /\ IsSingleText(task[t].inner)
           /\ StartsWith(InnerText(t), <<"Error: ", "file_path is required">>)
           /\ task[t].log = <<>>
           /\ task[t].getbots = <<>>

\* C2 witness: an empty file_path with a chat id given, a credential set
\* and the file present, answered by the required-file_path text.
C2_Witness ==
    \E t \in Tasks :
        /\ Done(t) /\ IsRequest(t)
        /\ task[t].arguments.file_path = Str("")
        /\ task[t].arguments.chat_id = Str("42")
        /\ Truthy(environ) /\ fs[Path] = "file"
        /\ InnerText(t) = <<"Error: ", "file_path is required">>

\* C3: when a request with a non-empty file_path is dispatched while the
\* path does not exist, the result is "Error: File not found: <path>".
C3_FileNotFound ==
    [][\A t \in Tasks :
          ( /\ task[t].pc = "idle" /\ task'[t].pc # "idle"
            /\ task'[t].name \in SendNames
            /\ task'[t].arguments.t = "dict"
            /\ task'[t].arguments.file_path.t = "str"
            /\ task'[t].arguments.file_path.s # ""
            /\ fs[task'[t].arguments.file_path.s] = "missing" )
          => /\ task'[t].pc = "done"
             /\ IsSingleText(task'[t].inner)
             /\ task'[t].inner.val[1].text
                   = <<"Error: ", "File not found: ", task'[t].arguments.file_path.s>>
             /\ task'[t].result = task'[t].inner]_vars

\* C3 witness: a request for the missing path, answered by the not-found text.
C3_Witness ==
    \E t \in Tasks :
        /\ Done(t) /\ IsRequest(t)
        /\ fs[Path] = "missing"
        /\ task[t].arguments.file_path = Str(Path)
        /\ ResultText(t) = <<"Error: ", "File not found: ", Path>>

HasMessage(updates) == \E i \in DOMAIN updates : updates[i].message # None

\* The position of the most recent update that carries a message.
LatestMessage(updates) ==
    CHOOSE i \in DOMAIN updates :
        /\ updates[i].message # None
        /\ \A j \in DOMAIN updates : j > i => updates[j].message = None

\* C4: when the task resumes with the fetched updates: if one of them
\* carries a message, the chat id becomes the text of the chat id of the most
\* recent such update, and an upload, if issued, goes to it; if none does,
\* the resolver's value is None, no upload is issued and the result is the
\* unresolved-identity text.
C4_LatestSenderOrUnresolved ==
    [][\A t \in Tasks :
          ( /\ task[t].pc = "await_updates" /\ task'[t].pc # "await_updates"
            /\ task[t].inflight.k = "ok" )
          => LET u == task[t].inflight.updates IN
             IF HasMessage(u)
             THEN /\ task'[t].chat_id = Str(IntText(u[LatestMessage(u)].message.chat_id))
                  /\ \A i \in UploadEvents(task'[t].log) :
                        task'[t].log[i].chat_id = task'[t].chat_id
                  /\ task'[t].inner # Return(UnresolvedText)
             ELSE /\ task'[t].chat_id = None
                  /\ task'[t].pc = "done"
                  /\ UploadEvents(task'[t].log) = {}
                  /\ IsSingleText(task'[t].inner)
                  /\ StartsWith(task'[t].inner.val[1].text,
                                <<"Error: ", "chat_id not provided and could not auto-detect">>)]_vars

\* C4 witness: an upload under way to chat "0", resolved from the updates
\* of a request that named no chat.
C4_Witness ==
    \E t \in Tasks :
        /\ task[t].pc = "await_upload"
        /\ task[t].arguments.chat_id = Absent
        /\ Len(task[t].log) = 2
        /\ task[t].log[1].op = "get_updates" /\ task[t].log[1].out = Ok
        /\ task[t].log[2].chat_id = Str("0")

\* The resolver failed: get_updates raised, or get_bot raised inside it.
ResolverFailed(t) ==
    \/ /\ Len(task[t].log) = 1
       /\ task[t].log[1].op = "get_updates"
       /\ task[t].log[1].out.k = "raise"
    \/ /\ task[t].log = <<>>
       /\ task[t].getbots = <<"raised">>
       /\ ChatIdMissing(DictGet(task[t].arguments, "chat_id"))

\* C5: when obtaining the client or fetching the updates fails inside the
\* resolver, the resolver returns None and the operation returns the
\* unresolved-identity text; nothing is raised and no upload is issued.
C5_ResolverSwallowsFailure ==
    \A t \in Tasks :
        (Done(t) /\ IsRequest(t) /\ ResolverFailed(t))
        => /\ task[t].chat_id = None
           /\ IsSingleText(task[t].inner)
           /\ StartsWith(InnerText(t),
                         <<"Error: ", "chat_id not provided and could not auto-detect">>)
           /\ task[t].result = task[t].inner

\* C5 witness: get_updates raised and the unresolved-identity text came back.
C5_Witness ==
    \E t \in Tasks :
        /\ Done(t) /\ IsRequest(t)
        /\ Len(task[t].log) = 1
        /\ task[t].log[1].out.k = "raise"
        /\ task[t].log[1].op = "get_updates"
        /\ ResultText(t) = UnresolvedText

\* The task entered the try block of lines 72-88 (109-124): it called
\* get_bot there, after the one call of the resolver if the chat id was to
\* be resolved.
EnteredTry(t) ==
    Len(task[t].getbots) >
        (IF ChatIdMissing(DictGet(task[t].arguments, "chat_id")) THEN 1 ELSE 0)

IsSuccessText(text) ==
    Head(text) \in {"Document sent successfully!", "Photo sent successfully!"}

\* C6: when the upload raised a Telegram error, the operation returns the
\* single text "Telegram error: <description>"; when anything else failed
\* in the upload step (the client, the file, the upload, the file size) it
\* returns a text prefixed "Error: "; it never raises there and at most one
\* upload is issued.
C6_UploadFailureAsText ==
    \A t \in Tasks :
        (Done(t) /\ IsRequest(t) /\ EnteredTry(t))
        => LET lg == task[t].log
               up == UploadEvents(lg)
           IN  /\ IsSingleText(task[t].inner)
               /\ task[t].result = task[t].inner
               /\ Cardinality(up) <= 1
               /\ \A i \in up :
                     /\ i = Len(lg)
                     /\ (lg[i].out.k = "raise" /\ lg[i].out.exc.cls \in TelegramErrorClasses)
                           => InnerText(t) = <<"Telegram error: ">> \o lg[i].out.exc.msg
                     /\ (lg[i].out.k = "raise" /\ lg[i].out.exc.cls \notin TelegramErrorClasses)
                           => InnerText(t) = <<"Error: ">> \o lg[i].out.exc.msg
                     /\ lg[i].out.k = "ok"
                           => (IsSuccessText(InnerText(t)) \/ Head(InnerText(t)) = "Error: ")
               /\ up = {} => Head(InnerText(t)) = "Error: "

\* C6 witness: the upload raised BadRequest and the text says so.
C6_Witness ==
    \E t \in Tasks :
        /\ Done(t) /\ IsRequest(t)
        /\ Len(task[t].log) = 1
        /\ task[t].log[1].op = "send_document"
        /\ task[t].log[1].out = Raise(Exc("BadRequest", <<"Chat not found">>))
        /\ ResultText(t) = <<"Telegram error: ", "Chat not found">>

\* C7: a name that is neither "send_telegram_document" nor
\* "send_telegram_photo" makes call_tool return the single text
\* "Error: Unknown tool: <name>"; no operation is dispatched, no remote call
\* is made and get_bot is not called.
C7_UnknownTool ==
    \A t \in Tasks :
        (task[t].pc # "idle" /\ task[t].name \notin SendNames)
        => /\ Done(t)
           /\ IsSingleText(task[t].result)
           /\ ResultText(t) = <<"Error: ", "Unknown tool: ", task[t].name>>
           /\ task[t].inner = NotCalled
           /\ task[t].log = <<>>
           /\ task[t].getbots = <<>>

\* C7 witness: a name that differs from a tool's only by case, with a
\* well-formed request, a credential and the file present.
C7_Witness ==
    \E t \in Tasks :
        /\ Done(t)
        /\ task[t].name = "send_telegram_Photo"
        /\ task[t].arguments = [t |-> "dict", file_path |-> Str(Path), chat_id |-> Str("42")]
        /\ Truthy(environ) /\ fs[Path] = "file"
        /\ ResultText(t) = <<"Error: ", "Unknown tool: ", "send_telegram_Photo">>

LastOf(sq) == sq[Len(sq)]

\* C8: the client handle is constructed at most once, whatever the
\* interleaving of the invocations: once set it is the first instance, a
\* get_bot call that finds it set neither constructs nor looks at the
\* credential (so it cannot fail), and a get_bot call that fails for want
\* of the credential leaves it unset.
C8_HandleConstructedOnce ==
    /\ ctorCount <= 1
    /\ bot = NoBot <=> ctorCount = 0
    /\ bot # NoBot => bot.id = 1
    /\ \A t \in Tasks :
          /\ Cardinality({i \in DOMAIN task[t].getbots : task[t].getbots[i] = "constructed"})
                <= ctorCount
          /\ (Done(t) /\ task[t].getbots # <<>> /\ LastOf(task[t].getbots) = "raised")
                => bot = NoBot
          /\ \A i \in DOMAIN task[t].getbots :
                task[t].getbots[i] = "cached" => bot # NoBot

\* C8 witness: two invocations interleaved, the first constructed the
\* handle, the second got the cached one after the credential was unset.
C8_Witness ==
    \E t, u \in Tasks :
        /\ t # u
        /\ task[t].pc = "await_upload" /\ task[t].getbots = <<"constructed">>
        /\ task[u].pc = "await_upload" /\ task[u].getbots = <<"cached">>
        /\ ~Truthy(environ)
        /\ bot # NoBot /\ ctorCount = 1

\* C9: send_document and send_photo never end by raising.
C9_SendNeverRaises ==
    \A t \in Tasks : (Done(t) /\ IsSend(t)) => task[t].inner.k = "return"

\* The shape of the log of one invocation: at most one identity query, at
\* most one upload, the query first, nothing after a failed call.
LinearLog(lg) ==
    /\ Cardinality(QueryEvents(lg)) <= 1
    /\ Cardinality(UploadEvents(lg)) <= 1
    /\ \A i \in QueryEvents(lg) : i = 1
    /\ \A i \in DOMAIN lg : lg[i].out.k = "raise" => i = Len(lg)
    /\ \A i \in DOMAIN lg : lg[i].out.k = "pending" => i = Len(lg)

\* Both file_path checks passed in this invocation.
Validated(t) ==
    /\ IsRequest(t)
    /\ task[t].arguments.file_path.t = "str"
    /\ task[t].arguments.file_path.s \in Paths

\* What C10 says of each state but for the condition of the identity query.
LinearPass(t) ==
    LET lg == task[t].log IN
    /\ LinearLog(lg)
    /\ lg # <<>> => Validated(t)
    /\ \A i \in UploadEvents(lg) :
          /\ Truthy(lg[i].chat_id)
          /\ lg[i].chat_id = task[t].chat_id
          /\ IF QueryEvents(lg) = {}
             THEN lg[i].chat_id = task[t].arguments.chat_id
             ELSE lg[1].out = Ok
    /\ task[t].pc = "await_updates" <=> (lg # <<>> /\ LastOf(lg) = Event("get_updates", None))
    /\ task[t].pc = "await_upload" <=> (lg # <<>> /\ LastOf(lg).out = Pending
                                          /\ LastOf(lg).op \in UploadOps)

\* A remote call is issued only in a step that starts with the file present.
IssuedOnExistingFile ==
    \A t \in Tasks :
        (task'[t].pc # "idle" /\ Len(task'[t].log) > Len(task[t].log))
        => /\ fs[task'[t].arguments.file_path.s] # "missing"
           /\ (LastOf(task'[t].log).op \in UploadOps
                  => fs[task'[t].arguments.file_path.s] = "file")

\* C10 as stated: each invocation is one linear pass, and the identity
\* query is issued only when the request carries no chat id.
C10_QueryOnlyWhenAbsent ==
    \A t \in Tasks :
        /\ LinearPass(t)
        /\ QueryEvents(task[t].log) # {} => task[t].arguments.chat_id = Absent

\* C10 amended: each invocation is one linear pass: at most one identity
\* query and at most one upload; the query is issued only when the request
\* carries no chat id or an empty one, and only after both file_path checks
\* passed; the upload only after validation and with a chat id, given or
\* resolved; the query comes first; nothing is issued after a failure.
C10_LinearSinglePass ==
    /\ [](\A t \in Tasks :
            /\ LinearPass(t)
            /\ QueryEvents(task[t].log) # {}
                  => task[t].arguments.chat_id \in {Absent, Str("")})
    /\ [][IssuedOnExistingFile]_vars

\* C10 witness: a query answered, then the one upload failed, and the
\* invocation ended with both calls made once.
C10_Witness ==
    \E t \in Tasks :
        /\ Done(t)
        /\ Len(task[t].log) = 2
        /\ task[t].log[1].op = "get_updates" /\ task[t].log[1].out = Ok
        /\ task[t].log[2].op = "send_photo" /\ task[t].log[2].out.k = "raise"

====
